---- MODULE Spec2Model ----
(***************************************************************************)
(* Model of the prompt-baking, judge-scoring and challenge-validation      *)
(* routines of skill-issue's optimization scripts:                         *)
(*   src/optimization/config.py                                            *)
(*   src/optimization/evaluator.py                                         *)
(*   src/optimization/bake_prompt.py                                       *)
(*   src/optimization/optimize_challenge_prompt.py                         *)
(*                                                                         *)
(* Numbers.  Judge scores are Python ints/floats.  A finite number is kept *)
(* as an integer count of hundredths of a score point (7.5 points = 750);  *)
(* a normalised 0-1 sub-score and a weight are kept in hundredths (0.75 =  *)
(* 75), and a composite score, being a sum of products of the two, in      *)
(* ten-thousandths (0.7 = 7000).  NaN and the infinities, which json.loads *)
(* accepts, are separate values with Python's comparison rules.            *)
(***************************************************************************)
EXTENDS Integers, Sequences, FiniteSets, TLC

VARIABLES
    evalIn,       \* the judge's reply handed to ChallengeEvaluator.evaluate's parser
    evalResult,   \* the EvaluationResult last returned
    baseFile,     \* prompts/challenge_base.txt: absent, or its text
    bakeArgs,     \* the arguments of the bake_prompt call
    baked,        \* what bake_prompt returned
    exText,       \* the text handed to extract_first_json_object
    exRet,        \* what extract_first_json_object returned
    challenge,    \* the dict handed to is_valid_challenge
    validRet,     \* what is_valid_challenge did: "True", "False" or "TypeError"
    metricIn,     \* challenge_quality_metric's llm_output, what its member denotes, the judge's reply
    metricRet,    \* what challenge_quality_metric did
    judgeCalls,   \* the number of calls of the judge model (client.messages.create)
    store,        \* prompts/optimized_prompts.json
    storeCall,    \* the latest call on the file: save or load, with its skill_id and level
    loadRet,      \* what load_existing_optimized_prompt returned, if it was the latest call
    skillsTable,  \* the Supabase credentials and the rows of the skills table
    levelCall,    \* the arguments of the bake_prompt_for_skill_level call
    levelRet,     \* what bake_prompt_for_skill_level did
    storeReads,   \* the number of times that call consulted prompts/optimized_prompts.json
    metaFetches   \* the number of times that call fetched skill metadata

evalVars == <<evalIn, evalResult>>
bakeVars == <<baseFile, bakeArgs, baked>>
extractVars == <<exText, exRet>>
validVars == <<challenge, validRet>>
metricVars == <<metricIn, metricRet, judgeCalls>>
storeVars == <<store, storeCall, loadRet>>
levelVars == <<skillsTable, levelCall, levelRet, storeReads, metaFetches>>
vars == <<evalVars, bakeVars, extractVars, validVars, metricVars, storeVars, levelVars>>

\* what a step of the eval routines leaves alone
notEvalVars == <<bakeVars, extractVars, validVars, metricVars, storeVars, levelVars>>
\* what a step of the bake routines leaves alone
notBakeVars == <<evalVars, extractVars, validVars, metricVars, storeVars, levelVars>>
\* what a step of the extract routines leaves alone
notExtractVars == <<evalVars, bakeVars, validVars, metricVars, storeVars, levelVars>>
\* what a step of the valid routines leaves alone
notValidVars == <<evalVars, bakeVars, extractVars, metricVars, storeVars, levelVars>>
\* what a step of the metric routines leaves alone
notMetricVars == <<evalVars, bakeVars, extractVars, validVars, storeVars, levelVars>>
\* what a step of the store routines leaves alone
notStoreVars == <<evalVars, bakeVars, extractVars, validVars, metricVars, levelVars>>
\* what a step of the skill-level routine leaves alone
notLevelVars == <<evalVars, bakeVars, extractVars, validVars, metricVars, storeVars>>

----------------------------------------------------------------------------
(* Python values as they come out of json.loads *)

Num(n)  == [t |-> "num",  v |-> n]     \* finite int or float, in hundredths of a point
Bool(b) == [t |-> "bool", v |-> IF b THEN 100 ELSE 0]   \* bool is an int: True == 1
NaN     == [t |-> "nan",  v |-> 0]
PosInf  == [t |-> "inf",  v |-> 1]
NegInf  == [t |-> "inf",  v |-> -1]
None    == [t |-> "none", v |-> 0]
Str     == [t |-> "str",  v |-> 0]     \* a non-empty JSON string such as "7"

\* isinstance(value, (int, float))
IsIntOrFloat(x) == x.t \in {"num", "bool", "nan", "inf"}

\* bool(value), as used by `or`
Truthy(x) ==
    CASE x.t = "num"  -> x.v # 0
      [] x.t = "bool" -> x.v # 0
      [] x.t = "nan"  -> TRUE
      [] x.t = "inf"  -> TRUE
      [] x.t = "str"  -> TRUE
      [] OTHER        -> FALSE

\* a < b on ints and floats: every comparison with NaN is false
PyLess(a, b) ==
    CASE a.t = "nan" \/ b.t = "nan" -> FALSE
      [] a.t = "inf" /\ b.t = "inf" -> a.v < b.v
      [] a.t = "inf"                -> a.v < 0
      [] b.t = "inf"                -> b.v > 0
      [] OTHER                      -> a.v < b.v

\* min(a, b) keeps its first argument unless the second is smaller;
\* max(a, b) keeps its first argument unless the second is larger
PyMin(a, b) == IF PyLess(b, a) THEN b ELSE a
PyMax(a, b) == IF PyLess(a, b) THEN b ELSE a

\* n score points
Points(n) == Num(n * 100)

----------------------------------------------------------------------------
(* config.py *)

Dims == {"clarity", "difficulty_alignment", "distractor_quality",
         "educational_value", "skill_relevance"}

EVALUATION_WEIGHTS_skewed ==
    [clarity              |-> 20,
     difficulty_alignment |-> 25,
     distractor_quality   |-> 20,
     educational_value    |-> 20,
     skill_relevance      |-> 20]

\* in hundredths
EVALUATION_WEIGHTS ==
    [clarity              |-> 20,
     difficulty_alignment |-> 25,
     distractor_quality   |-> 20,
     educational_value    |-> 15,
     skill_relevance      |-> 20]

\* 0.7, in hundredths
QUALITY_THRESHOLD == 70

----------------------------------------------------------------------------
(* evaluator.py: ChallengeEvaluator *)

\* _normalize_score; the result is in hundredths
NormalizeScore(value) ==
    IF ~IsIntOrFloat(value)
    THEN 0
    ELSE LET clamped == PyMax(Points(0), PyMin(Points(10), value))
         IN  clamped.v \div 10

CalculateComposite_unweighted(scores) ==
    ( scores["clarity"] + scores["difficulty_alignment"]
    + scores["distractor_quality"] + scores["educational_value"]
    + scores["skill_relevance"] ) * 20

\* _calculate_composite; the result is in ten-thousandths
CalculateComposite(scores) ==
      scores["clarity"]              * EVALUATION_WEIGHTS["clarity"]
    + scores["difficulty_alignment"] * EVALUATION_WEIGHTS["difficulty_alignment"]
    + scores["distractor_quality"]   * EVALUATION_WEIGHTS["distractor_quality"]
    + scores["educational_value"]    * EVALUATION_WEIGHTS["educational_value"]
    + scores["skill_relevance"]      * EVALUATION_WEIGHTS["skill_relevance"]

Passed_strict(composite_score) == composite_score > QUALITY_THRESHOLD * 100

\* composite_score >= QUALITY_THRESHOLD
Passed(composite_score) == composite_score >= QUALITY_THRESHOLD * 100

\* _create_failed_evaluation
CreateFailedEvaluation(reason) ==
    [scores          |-> [d \in Dims |-> 0],
     composite_score |-> 0,
     passed          |-> FALSE,
     reasons         |-> reason]

\* a or b
Or(a, b) == IF Truthy(a) THEN a ELSE b

\* raw_scores of _parse_response: parsed.get(k1) or parsed.get(k2) [or parsed.get(k3)].
\* parsed[d] holds the values under the first two keys of dimension d; a third
\* key, where the code reads one, is absent from the reply (parsed.get gives None).
RawScore(parsed, d) ==
    IF d = "clarity"
    THEN Or(parsed[d][1], parsed[d][2])
    ELSE Or(Or(parsed[d][1], parsed[d][2]), None)

\* _parse_response.  A reply is [kind, parsed]: kind "nojson" has no {...} span
\* (ValueError), "badjson" has one that json.loads rejects, "json" parses.
ParseResponse(response) ==
    IF response.kind # "json"
    THEN CreateFailedEvaluation("parse error")
    ELSE LET scores == [d \in Dims |-> NormalizeScore(RawScore(response.parsed, d))]
             composite_score == CalculateComposite(scores)
         IN  [scores          |-> scores,
              composite_score |-> composite_score,
              passed          |-> Passed(composite_score),
              reasons         |-> "judged"]

\* evaluate(challenge, skill_name, skill_description, target_difficulty), given
\* what client.messages.create does: it raises (kind "exception") or it replies
Evaluate(judge) ==
    IF judge.kind = "exception"
    THEN CreateFailedEvaluation("api error")
    ELSE ParseResponse(judge)

\* the parameters of evaluate, besides self
EvaluateParams == {"challenge", "skill_name", "skill_description", "target_difficulty"}

----------------------------------------------------------------------------
(* The judge's replies the model runs the evaluator on *)

RawValues ==
    {None, Str, Bool(TRUE), NaN, PosInf, NegInf,
     Points(-1), Points(0), Num(750), Points(7), Points(10), Points(12)}

\* <<value under the first key, value under the second key>> of one dimension
ParsedPairs ==
    {<<x, None>> : x \in RawValues} \cup {<<Points(0), Points(8)>>, <<None, Points(8)>>}

NoParsed == [d \in Dims |-> <<None, None>>]

Responses ==
    {[kind |-> k, parsed |-> NoParsed] : k \in {"nojson", "badjson"}}
    \cup {[kind |-> "json", parsed |-> p] : p \in [Dims -> ParsedPairs]}

NoResult ==
    [scores |-> [d \in Dims |-> 0], composite_score |-> 0, passed |-> FALSE,
     reasons |-> "none"]

NoReply == [kind |-> "none", parsed |-> NoParsed]

EvalInputs == Responses \cup {[kind |-> "exception", parsed |-> NoParsed]}

\* evaluate: the judge replied, and the reply is parsed
EvaluateReply ==
    /\ evalResult = NoResult
    /\ evalIn.kind # "exception"
    /\ evalResult' = Evaluate(evalIn)
    /\ UNCHANGED evalIn
    /\ UNCHANGED notEvalVars

\* evaluate: the API call raised
EvaluateException ==
    /\ evalResult = NoResult
    /\ evalIn.kind = "exception"
    /\ evalResult' = Evaluate(evalIn)
    /\ UNCHANGED evalIn
    /\ UNCHANGED notEvalVars

EvalNext == EvaluateReply \/ EvaluateException

----------------------------------------------------------------------------
(* Strings.  A string is a sequence of symbols: the braces "{" and "}" one *)
(* by one, each variable name ("skill_name", ...) and the prefix "input."  *)
(* as one symbol, decimal digits, and other text as opaque symbols.        *)

\* an Optional[str]
NoneStr == [some |-> FALSE, val |-> <<>>]
Some(s) == [some |-> TRUE, val |-> s]

\* s[i:j] in Python's half-open, 0-based indexing
Slice(s, i, j) == SubSeq(s, i + 1, j)

\* s.startswith(old, i)
StartsWithAt(s, old, i) ==
    /\ i + Len(old) <= Len(s)
    /\ Slice(s, i, i + Len(old)) = old

\* old in s
Contains(s, old) == \E i \in 0..Len(s) : StartsWithAt(s, old, i)

RECURSIVE ReplaceFrom(_, _, _, _)
\* the text of s from offset i on, every non-overlapping occurrence of old
\* (found left to right) replaced by new; replaced text is not scanned again
ReplaceFrom(s, old, new, i) ==
    IF i >= Len(s) THEN <<>>
    ELSE IF StartsWithAt(s, old, i)
         THEN new \o ReplaceFrom(s, old, new, i + Len(old))
         ELSE <<s[i + 1]>> \o ReplaceFrom(s, old, new, i + 1)

\* s.replace(old, new), for a non-empty old
Replace(s, old, new) == ReplaceFrom(s, old, new, 0)

Digits == <<"0", "1", "2", "3", "4", "5", "6", "7", "8", "9">>

RECURSIVE NatStr(_)
NatStr(n) == IF n < 10 THEN <<Digits[n + 1]>> ELSE NatStr(n \div 10) \o <<Digits[(n % 10) + 1]>>

\* str(n) for an int
IntStr(n) == IF n < 0 THEN <<"-">> \o NatStr(-n) ELSE NatStr(n)

\* "{{name}}"
Var(name) == <<"{", "{", name, "}", "}">>
\* "{{input.name}}"
InputVar(name) == <<"{", "{", "input.", name, "}", "}">>

----------------------------------------------------------------------------
(* bake_prompt.py *)

\* DIFFICULTY_DESCRIPTIONS.get(difficulty, f"Difficulty level {difficulty}"):
\* the ten table entries are brace-free sentences, kept as one symbol and the level
GetDifficultyDescription(difficulty) ==
    IF difficulty \in 1..10
    THEN <<"description of level ">> \o IntStr(difficulty)
    ELSE <<"Difficulty level ">> \o IntStr(difficulty)

\* load_base_prompt: the file's text, or FileNotFoundError
LoadBasePrompt == IF baseFile.some THEN [kind |-> "ok", val |-> baseFile.val]
                  ELSE [kind |-> "raise", val |-> <<"FileNotFoundError">>]

\* the seven replace calls of bake_prompt, in order
BakeReplacements(base_prompt, skill_name, skill_description, difficulty, difficulty_description) ==
    LET b1 == Replace(base_prompt, Var("skill_name"), skill_name)
        b2 == Replace(b1, Var("skill_description"), skill_description)
        b3 == Replace(b2, Var("difficulty"), IntStr(difficulty))
        b4 == Replace(b3, Var("difficulty_description"), difficulty_description)
        b5 == Replace(b4, InputVar("skill_name"), skill_name)
        b6 == Replace(b5, InputVar("skill_description"), skill_description)
        b7 == Replace(b6, InputVar("difficulty"), IntStr(difficulty))
    IN  b7

\* bake_prompt(skill_name, skill_description, difficulty, difficulty_description, base_prompt)
BakePrompt(skill_name, skill_description, difficulty, difficulty_description, base_prompt) ==
    LET loaded == IF base_prompt.some THEN [kind |-> "ok", val |-> base_prompt.val]
                  ELSE LoadBasePrompt
        dd == IF difficulty_description.some THEN difficulty_description.val
              ELSE GetDifficultyDescription(difficulty)
    IN  IF loaded.kind = "raise" THEN loaded
        ELSE [kind |-> "ok",
              val  |-> BakeReplacements(loaded.val, skill_name, skill_description,
                                        difficulty, dd)]

----------------------------------------------------------------------------
(* The prompts and values the model bakes *)

VarNames == {"skill_name", "skill_description", "difficulty", "difficulty_description"}

\* the most pieces a base prompt is put together from
MaxParts == 2

Fragments ==
    {Var(n) : n \in VarNames} \cup {InputVar(n) : n \in VarNames}
    \cup {<<"x">>, <<"{">>, <<"}">>, <<"skill_name">>}

RECURSIVE Concats(_)
\* the strings made of at most n fragments
Concats(n) ==
    IF n = 0 THEN {<<>>}
    ELSE LET shorter == Concats(n - 1)
         IN  shorter \cup {s \o f : s \in shorter, f \in Fragments}

BasePrompts == Concats(MaxParts)

\* the template shipped as prompts/challenge_base.txt uses the four plain variables
DefaultTemplate ==
    <<"x">> \o Var("skill_name") \o Var("skill_description")
            \o Var("difficulty") \o Var("difficulty_description")

\* the skills table holds plain text
SkillNames == {<<"Python">>, <<>>}
SkillDescriptions == {<<"a language">>, <<"x">>}
Difficulties == {1, 10, 11}
DifficultyDescriptions == {NoneStr, Some(<<"custom">>)}

BakeArgSets ==
    [skill_name : SkillNames, skill_description : SkillDescriptions,
     difficulty : Difficulties, difficulty_description : DifficultyDescriptions,
     base_prompt : {NoneStr} \cup {Some(b) : b \in BasePrompts}]

NoBakeArgs ==
    [skill_name |-> <<>>, skill_description |-> <<>>, difficulty |-> 1,
     difficulty_description |-> NoneStr, base_prompt |-> NoneStr]

NotBaked == [kind |-> "none", val |-> <<>>]

\* one call of bake_prompt
Bake ==
    /\ baked = NotBaked
    /\ baked' = BakePrompt(bakeArgs.skill_name, bakeArgs.skill_description,
                           bakeArgs.difficulty, bakeArgs.difficulty_description,
                           bakeArgs.base_prompt)
    /\ UNCHANGED <<baseFile, bakeArgs>>
    /\ UNCHANGED notBakeVars

BakeNext == Bake


----------------------------------------------------------------------------
(* JSON texts.  A text is a string over these symbols:                     *)
(*   "{" "}"   the braces                                                  *)
(*   " "       whitespace                                                  *)
(*   "m"       a complete member with a scalar value, such as "a":1        *)
(*   "k"       a key and its colon, such as "a": , to be followed by an    *)
(*             object                                                      *)
(*   "q"       a key, its colon and the opening quote of a string value    *)
(*   "e"       the closing quote of that string value                      *)
(*   "x"       any other character that is not whitespace                  *)
(* An object is "{" [member] "}" with whitespace allowed between tokens; a *)
(* member is m, or k followed by an object, or q, string characters, e.    *)

TextSymbols == {"{", "}", " ", "m", "k", "q", "e", "x"}
\* the characters a string value may hold ("m", "k" and "q" hold a quote)
StringChars == {"{", "}", " ", "x"}

RECURSIVE SkipWs(_, _)
\* the first offset from i on that holds no whitespace
SkipWs(s, i) == IF i < Len(s) /\ s[i + 1] = " " THEN SkipWs(s, i + 1) ELSE i

RECURSIVE StringEnd(_, _)
\* the offset after the closing quote of the string value whose characters
\* start at i; -1 if it is not closed
StringEnd(s, i) ==
    IF i >= Len(s) THEN -1
    ELSE IF s[i + 1] = "e" THEN i + 1
    ELSE IF s[i + 1] \in StringChars THEN StringEnd(s, i + 1)
    ELSE -1

RECURSIVE ObjectEnd(_, _)
\* the offset after the JSON object that starts at i; -1 if none starts there
ObjectEnd(s, i) ==
    IF i >= Len(s) \/ s[i + 1] # "{" THEN -1
    ELSE LET j == SkipWs(s, i + 1)
             afterMember ==
                 IF j >= Len(s) THEN -1
                 ELSE CASE s[j + 1] = "m" -> j + 1
                        [] s[j + 1] = "k" -> ObjectEnd(s, SkipWs(s, j + 1))
                        [] s[j + 1] = "q" -> StringEnd(s, j + 1)
                        [] OTHER          -> -1
             l == IF afterMember = -1 THEN -1 ELSE SkipWs(s, afterMember)
         IN  IF j < Len(s) /\ s[j + 1] = "}" THEN j + 1
             ELSE IF l # -1 /\ l < Len(s) /\ s[l + 1] = "}" THEN l + 1
             ELSE -1

RECURSIVE Canonical(_, _, _)
\* the value a JSON text denotes: the text without its insignificant whitespace
Canonical(s, i, inString) ==
    IF i >= Len(s) THEN <<>>
    ELSE LET c == s[i + 1]
         IN  IF c = " " /\ ~inString THEN Canonical(s, i + 1, inString)
             ELSE <<c>> \o Canonical(s, i + 1, (c = "q") \/ (inString /\ c # "e"))

\* json.loads on a text that begins with "{": the dict, or JSONDecodeError
JsonLoads(candidate) ==
    IF ObjectEnd(candidate, 0) = Len(candidate)
    THEN [kind |-> "dict", val |-> Canonical(candidate, 0, FALSE)]
    ELSE [kind |-> "JSONDecodeError", val |-> <<>>]

\* Python's None, as the result of extract_first_json_object
NoObject == [kind |-> "None", val |-> <<>>]

----------------------------------------------------------------------------
(* optimize_challenge_prompt.py: extract_first_json_object *)

RECURSIVE ExtractLoop(_, _, _, _)
\* the for loop from character i on, with the loop's depth and start_idx
\* (start_idx = -1 stands for None)
ExtractLoop(text, i, depth, start_idx) ==
    IF i >= Len(text) THEN NoObject
    ELSE LET char == text[i + 1]
         IN  IF char = "{"
             THEN ExtractLoop(text, i + 1, depth + 1, IF depth = 0 THEN i ELSE start_idx)
             ELSE IF char = "}"
             THEN IF depth - 1 = 0 /\ start_idx # -1
                  THEN LET loaded == JsonLoads(Slice(text, start_idx, i + 1))
                       IN  IF loaded.kind = "dict" THEN loaded
                           ELSE ExtractLoop(text, i + 1, depth - 1, -1)
                  ELSE ExtractLoop(text, i + 1, depth - 1, start_idx)
             ELSE ExtractLoop(text, i + 1, depth, start_idx)

ExtractFirstJsonObject(text) == ExtractLoop(text, 0, 0, -1)

----------------------------------------------------------------------------
(* The texts the model extracts from *)

\* the longest text, in symbols
MaxText == 5

Texts == UNION {[1..n -> TextSymbols] : n \in 0..MaxText}

NotExtracted == [kind |-> "not called", val |-> <<>>]

\* one call of extract_first_json_object
Extract ==
    /\ exRet = NotExtracted
    /\ exRet' = ExtractFirstJsonObject(exText)
    /\ UNCHANGED exText
    /\ UNCHANGED notExtractVars

ExtractNext == Extract

----------------------------------------------------------------------------
(* Python values inside a challenge dict.  t is the type; n the numeric    *)
(* value of a number or the identity of a string's content; len is len(x)  *)
(* where x has one; strlen is len(str(x)); items are a list's elements.     *)

PV(t, n, len, strlen) == [t |-> t, n |-> n, len |-> len, strlen |-> strlen, items |-> <<>>]

PStr(id, len) == PV("str", id, len, len)
PInt(n)       == PV("int", n, -1, Len(IntStr(n)))
PFloat(n)     == PV("float", n, -1, Len(IntStr(n)) + 2)       \* n.0
PBool(b)      == PV("bool", IF b THEN 1 ELSE 0, -1, IF b THEN 4 ELSE 5)
PNone         == PV("none", 0, -1, 4)
Absent        == PV("absent", 0, -1, 0)                        \* the key is not in the dict

RECURSIVE ReprLen(_)
\* len(repr(items)) without the brackets: elements joined by ", "; a string in quotes
ReprLen(items) ==
    IF items = <<>> THEN 0
    ELSE LET x == Head(items)
             own == IF x.t = "str" THEN x.strlen + 2 ELSE x.strlen
         IN  own + (IF Len(items) > 1 THEN 2 ELSE 0) + ReprLen(Tail(items))

PList(items) == [t |-> "list", n |-> 0, len |-> Len(items),
                 strlen |-> 2 + ReprLen(items), items |-> items]

\* len(x) is defined
HasLen(x) == x.t \in {"str", "list"}
\* not x
Falsy(x) ==
    CASE x.t \in {"str", "list"}          -> x.len = 0
      [] x.t \in {"int", "float", "bool"} -> x.n = 0
      [] OTHER                            -> TRUE
\* hash(x) is defined
Hashable(x) == x.t # "list"
\* isinstance(x, int)
IsInt(x) == x.t \in {"int", "bool"}
\* a == b, for hashable values
PyEq(a, b) ==
    CASE a.t \in {"int", "float", "bool"} /\ b.t \in {"int", "float", "bool"} -> a.n = b.n
      [] a.t = "str" /\ b.t = "str" -> a.n = b.n /\ a.len = b.len
      [] OTHER -> a.t = b.t

\* dict.get(key, default)
Get(value, default) == IF value.t = "absent" THEN default ELSE value

----------------------------------------------------------------------------
(* evaluator.py: is_valid_challenge *)

\* len(set(options)): the number of options equal to no earlier option
SetSize(options) ==
    Cardinality({i \in 1..Len(options) :
                    \A j \in 1..(i - 1) : ~PyEq(options[i], options[j])})

\* is_valid_challenge(challenge): "True", "False", or the exception raised
IsValidChallenge(ch) ==
    LET question == Get(ch.question, PStr(0, 0))
        options  == Get(ch.options, PList(<<>>))
        correct_index == Get(ch.correctAnswerIndex, PNone)
    IN  IF Falsy(question) THEN "False"
        ELSE IF ~HasLen(question) THEN "TypeError"        \* len() of an int, float or bool
        ELSE IF question.len < 10 THEN "False"
        ELSE IF question.len > 500 THEN "False"
        ELSE IF options.t # "list" \/ options.len # 4 THEN "False"
        ELSE IF \E i \in 1..4 : \/ Falsy(options.items[i])
                                \/ options.items[i].strlen < 1
                                \/ options.items[i].strlen > 200 THEN "False"
        ELSE IF ~IsInt(correct_index) \/ correct_index.n < 0 \/ correct_index.n > 3
             THEN "False"
        ELSE IF \E i \in 1..4 : ~Hashable(options.items[i]) THEN "TypeError"   \* set(options)
        ELSE IF SetSize(options.items) # options.len THEN "False"
        ELSE "True"

----------------------------------------------------------------------------
(* The challenge dicts the model validates *)

Questions ==
    {Absent, PNone, PStr(0, 0), PStr(1, 9), PStr(1, 10), PStr(1, 500), PStr(1, 501),
     PInt(0), PInt(1234567890), PList([i \in 1..10 |-> PStr(i, 1)])}

OptionValues ==
    {PStr(1, 1), PStr(2, 1), PStr(3, 1), PStr(0, 0), PStr(4, 200), PStr(5, 201),
     PInt(0), PInt(1), PFloat(1), PList(<<PInt(1)>>)}

OptionLists ==
    {Absent, PNone, PStr(6, 4), PList(<<PStr(1, 1), PStr(2, 1), PStr(3, 1)>>),
     PList(<<PStr(1, 1), PStr(2, 1), PStr(3, 1), PStr(4, 200), PStr(7, 1)>>)}
    \cup {PList(o) : o \in [1..4 -> OptionValues]}

AnswerIndexes ==
    {Absent, PNone, PInt(-1), PInt(0), PInt(3), PInt(4), PBool(TRUE), PFloat(1), PStr(8, 1)}

Challenges ==
    [empty : {FALSE}, question : Questions, options : OptionLists,
     correctAnswerIndex : AnswerIndexes]

\* the dict {}
EmptyDict == [empty |-> TRUE, question |-> Absent, options |-> Absent,
              correctAnswerIndex |-> Absent]

\* one call of is_valid_challenge
Validate ==
    /\ validRet = "not called"
    /\ validRet' = IsValidChallenge(challenge)
    /\ UNCHANGED challenge
    /\ UNCHANGED notValidVars

ValidNext == Validate

----------------------------------------------------------------------------
(* optimize_challenge_prompt.py: challenge_quality_metric *)

\* the dict a parsed JSON object is, when the member "m" denotes payload's
\* members: {} is the empty dict, {m} is payload, and an object whose member
\* is a nested object or a string has none of a challenge's keys
DictOf(val, payload) ==
    IF val = <<"{", "}">> THEN EmptyDict
    ELSE IF val = <<"{", "m", "}">> THEN payload
    ELSE [empty |-> FALSE, question |-> Absent, options |-> Absent,
          correctAnswerIndex |-> Absent]

\* the keyword arguments the metric passes to evaluator.evaluate
MetricKwargs ==
    {"challenge", "skill_name", "skill_description", "target_difficulty", "example"}

ScoreResult(value, reason) ==
    [kind |-> "ScoreResult", name |-> "challenge_quality", value |-> value,
     reason |-> reason]

Raised(exception) ==
    [kind |-> "raise", name |-> exception, value |-> 0, reason |-> ""]

\* challenge_quality_metric(dataset_item, llm_output): what it returns or raises,
\* and how many times the judge is called
ChallengeQualityMetric(llm_output, payload, judge) ==
    LET extracted == ExtractFirstJsonObject(llm_output)
        ch == DictOf(extracted.val, payload)
        valid == IsValidChallenge(ch)
    IN  IF extracted.kind = "None" \/ ch.empty              \* if not challenge
        THEN [ret |-> ScoreResult(0, "No valid JSON found in LLM output"), calls |-> 0]
        ELSE IF valid = "TypeError"
        THEN [ret |-> Raised("TypeError"), calls |-> 0]
        ELSE IF valid = "False"
        THEN [ret |-> ScoreResult(0, "Challenge failed structural validation"),
              calls |-> 0]
        ELSE IF ~(MetricKwargs \subseteq EvaluateParams)
        THEN \* evaluate() got an unexpected keyword argument
             [ret |-> Raised("TypeError"), calls |-> 0]
        ELSE [ret |-> ScoreResult(Evaluate(judge).composite_score, "scores and reasons"),
              calls |-> 1]

----------------------------------------------------------------------------
(* The outputs the model scores *)

GoodChallenge ==
    [empty |-> FALSE, question |-> PStr(1, 10),
     options |-> PList(<<PStr(1, 1), PStr(2, 1), PStr(3, 1), PStr(4, 200)>>),
     correctAnswerIndex |-> PInt(3)]

Payloads ==
    {GoodChallenge,
     [GoodChallenge EXCEPT !.question = PStr(1, 9)],
     [GoodChallenge EXCEPT !.question = PInt(1234567890)],
     [GoodChallenge EXCEPT !.options = PList([i \in 1..4 |-> PList(<<PInt(i)>>)])],
     [GoodChallenge EXCEPT !.correctAnswerIndex = PInt(4)]}

JudgeReplies ==
    {[kind |-> "exception", parsed |-> NoParsed],
     [kind |-> "nojson", parsed |-> NoParsed],
     [kind |-> "json", parsed |-> [d \in Dims |-> <<Points(7), None>>]],
     [kind |-> "json", parsed |-> [d \in Dims |-> <<Points(10), None>>]]}

MetricInputs == [llm_output : Texts, payload : Payloads, judge : JudgeReplies]

NoMetricInput ==
    [llm_output |-> <<>>, payload |-> GoodChallenge,
     judge |-> [kind |-> "exception", parsed |-> NoParsed]]

NotScored == [kind |-> "not called", name |-> "", value |-> 0, reason |-> ""]

\* one call of challenge_quality_metric
Score ==
    /\ metricRet = NotScored
    /\ LET out == ChallengeQualityMetric(metricIn.llm_output, metricIn.payload,
                                         metricIn.judge)
       IN  /\ metricRet' = out.ret
           /\ judgeCalls' = judgeCalls + out.calls
    /\ UNCHANGED metricIn
    /\ UNCHANGED notMetricVars

MetricNext == Score

----------------------------------------------------------------------------
(* prompts/optimized_prompts.json.  The file is missing, is not JSON        *)
(* ("corrupt"), or holds {"prompts": {skill_id: {str(level): entry}}};     *)
(* an entry has a prompt and a status.                                     *)

Skills == {"skill-a", "skill-b"}
Levels == 1..2
LevelKeys == {IntStr(l) : l \in Levels}

\* written by save_optimized_prompt, and the ones its comment names
Statuses == {"pending", "deployed", "disabled"}

AbsentEntry == [present |-> FALSE, prompt |-> <<>>, status |-> ""]
Entry(prompt, status) == [present |-> TRUE, prompt |-> prompt, status |-> status]

NoPrompts == [sk \in Skills |-> [k \in LevelKeys |-> AbsentEntry]]

\* dict.get(key, {}) on the prompts of the file, then on a skill's levels
LevelData(prompts, skill_id, key) ==
    IF skill_id \in DOMAIN prompts /\ key \in DOMAIN prompts[skill_id]
    THEN prompts[skill_id][key]
    ELSE AbsentEntry

----------------------------------------------------------------------------
(* bake_prompt.py: load_existing_optimized_prompt *)

LoadExistingOptimizedPrompt_deployedOnly(skill_id, level) ==
    IF store.state # "ok" THEN NoneStr
    ELSE LET level_data == LevelData(store.prompts, skill_id, IntStr(level))
         IN  IF /\ level_data.present
                /\ level_data.prompt # <<>>
                /\ level_data.status = "deployed"
             THEN Some(level_data.prompt)
             ELSE NoneStr

\* load_existing_optimized_prompt(skill_id, level)
LoadExistingOptimizedPrompt(skill_id, level) ==
    IF store.state = "missing" THEN NoneStr                 \* not OPTIMIZED_PROMPTS_PATH.exists()
    ELSE IF store.state = "corrupt" THEN NoneStr            \* JSONDecodeError, caught
    ELSE LET level_data == LevelData(store.prompts, skill_id, IntStr(level))
         IN  IF /\ level_data.present
                /\ level_data.prompt # <<>>                 \* level_data.get("prompt")
                /\ level_data.status \in {"deployed", "pending"}
             THEN Some(level_data.prompt)
             ELSE NoneStr

----------------------------------------------------------------------------
(* optimize_challenge_prompt.py: save_optimized_prompt *)

\* the file after save_optimized_prompt(skill_id, level, optimized_prompt, ...);
\* load_optimized_prompts starts a new dict when there is no file
SavedStore(skill_id, level, optimized_prompt) ==
    LET data == IF store.state = "missing" THEN NoPrompts ELSE store.prompts
    IN  [state   |-> "ok",
         prompts |-> [data EXCEPT ![skill_id][IntStr(level)] =
                                      Entry(optimized_prompt, "pending")]]

----------------------------------------------------------------------------
(* The files and prompts the model stores *)

\* the most entries the file holds
MaxEntries == 2

OptimizedPrompts == {<<>>, <<"optimized">>}

EntryCount(prompts) ==
    Cardinality({<<sk, k>> \in Skills \X LevelKeys : prompts[sk][k].present})

Entries == {AbsentEntry} \cup {Entry(p, st) : p \in OptimizedPrompts, st \in Statuses}

Stores ==
    {[state |-> "missing", prompts |-> NoPrompts],
     [state |-> "corrupt", prompts |-> NoPrompts]}
    \cup {[state |-> "ok", prompts |-> pr] :
             pr \in {q \in [Skills -> [LevelKeys -> Entries]] : EntryCount(q) <= MaxEntries}}

NoStore == [state |-> "missing", prompts |-> NoPrompts]

NoStoreCall == [op |-> "none", skill_id |-> "", level |-> 0]
NotLoaded == [some |-> FALSE, val |-> <<"not called">>]

\* a call of save_optimized_prompt; on a file that is not JSON json.load raises
\* and nothing is written
Save ==
    \E skill_id \in Skills, level \in Levels, optimized_prompt \in OptimizedPrompts :
        /\ store.state # "corrupt"
        /\ EntryCount(SavedStore(skill_id, level, optimized_prompt).prompts) <= MaxEntries
        /\ store' = SavedStore(skill_id, level, optimized_prompt)
        /\ storeCall' = [op |-> "save", skill_id |-> skill_id, level |-> level]
        /\ loadRet' = NotLoaded
        /\ UNCHANGED notStoreVars

\* a call of load_existing_optimized_prompt, also for a skill or a level the
\* file has no key for
Load ==
    \E skill_id \in Skills \cup {"skill-z"}, level \in Levels \cup {3} :
        /\ storeCall' = [op |-> "load", skill_id |-> skill_id, level |-> level]
        /\ loadRet' = LoadExistingOptimizedPrompt(skill_id, level)
        /\ UNCHANGED store
        /\ UNCHANGED notStoreVars

StoreNext == Save \/ Load

----------------------------------------------------------------------------
(* bake_prompt.py: get_skill_metadata and bake_prompt_for_skill_level *)

NoRow == [present |-> FALSE, name |-> <<>>, description |-> <<>>]
Row(name, description) == [present |-> TRUE, name |-> name, description |-> description]

\* get_skill_metadata(skill_id): the row's name and description; ValueError when
\* the credentials are not set (get_supabase_client) or no row has that id
GetSkillMetadata(skill_id) ==
    IF ~skillsTable.configured
    THEN [kind |-> "raise", skill_name |-> <<>>, skill_description |-> <<>>]
    ELSE LET data == IF skill_id \in DOMAIN skillsTable.rows
                     THEN skillsTable.rows[skill_id] ELSE NoRow
         IN  IF ~data.present
             THEN [kind |-> "raise", skill_name |-> <<>>, skill_description |-> <<>>]
             ELSE [kind |-> "ok", skill_name |-> data.name,
                   skill_description |-> data.description]

\* what a call did: its outcome, and how often it read the prompt file and the table
LevelOutcome(ret, reads, fetches) ==
    [ret |-> ret, storeReads |-> reads, metaFetches |-> fetches]

BakePromptForSkillLevel_alwaysChecksStore(skill_id, level, use_optimized) ==
    LET existing == LoadExistingOptimizedPrompt(skill_id, level)
    IN  IF existing.some /\ existing.val # <<>>
        THEN LevelOutcome([kind |-> "ok", val |-> existing.val], 1, 0)
        ELSE LET skill_meta == GetSkillMetadata(skill_id)
             IN  IF skill_meta.kind = "raise"
                 THEN LevelOutcome([kind |-> "raise", val |-> <<"ValueError">>], 1, 1)
                 ELSE LevelOutcome(BakePrompt(skill_meta.skill_name,
                                              skill_meta.skill_description,
                                              level, NoneStr, NoneStr), 1, 1)

\* bake_prompt_for_skill_level(skill_id, level, use_optimized)
BakePromptForSkillLevel(skill_id, level, use_optimized) ==
    LET reads == IF use_optimized THEN 1 ELSE 0
        existing == IF use_optimized THEN LoadExistingOptimizedPrompt(skill_id, level)
                    ELSE NoneStr
    IN  IF use_optimized /\ existing.some /\ existing.val # <<>>       \* if existing:
        THEN LevelOutcome([kind |-> "ok", val |-> existing.val], reads, 0)
        ELSE LET skill_meta == GetSkillMetadata(skill_id)
             IN  IF skill_meta.kind = "raise"
                 THEN LevelOutcome([kind |-> "raise", val |-> <<"ValueError">>], reads, 1)
                 ELSE LevelOutcome(BakePrompt(skill_meta.skill_name,
                                              skill_meta.skill_description,
                                              level, NoneStr, NoneStr), reads, 1)

----------------------------------------------------------------------------
(* The skills tables and calls the model bakes for *)

SkillRows == {NoRow} \cup {Row(n, d) : n \in SkillNames, d \in SkillDescriptions}

SkillsTables ==
    {[configured |-> FALSE, rows |-> [sk \in Skills |-> NoRow]]}
    \cup {[configured |-> TRUE, rows |-> r] : r \in [Skills -> SkillRows]}

NoSkillsTable == [configured |-> FALSE, rows |-> [sk \in Skills |-> NoRow]]

\* also a skill and a level that neither the file nor the table has
LevelCalls ==
    [skill_id : Skills \cup {"skill-z"}, level : Levels \cup {3}, use_optimized : BOOLEAN]

NoLevelCall == [skill_id |-> "", level |-> 0, use_optimized |-> FALSE]

NotLevelled == [kind |-> "none", val |-> <<>>]

\* one call of bake_prompt_for_skill_level
BakeForSkillLevel ==
    /\ levelRet = NotLevelled
    /\ levelCall # NoLevelCall
    /\ LET outcome == BakePromptForSkillLevel(levelCall.skill_id, levelCall.level,
                                              levelCall.use_optimized)
       IN  /\ levelRet' = outcome.ret
           /\ storeReads' = outcome.storeReads
           /\ metaFetches' = outcome.metaFetches
    /\ UNCHANGED <<skillsTable, levelCall>>
    /\ UNCHANGED notLevelVars

LevelNext == BakeForSkillLevel

----------------------------------------------------------------------------
(* Specifications: the whole program, and one per routine with the others not called *)

\* the state before any call: the routines in `called` get their inputs from the
\* sets above, the others hold no call
Start(called) ==
    /\ evalIn \in (IF "eval" \in called THEN EvalInputs ELSE {NoReply})
    /\ evalResult = NoResult
    /\ bakeArgs \in (IF "bake" \in called THEN BakeArgSets ELSE {NoBakeArgs})
    /\ baseFile \in (IF \/ "bake" \in called /\ ~bakeArgs.base_prompt.some
                        \/ "level" \in called
                     THEN {NoneStr, Some(DefaultTemplate)}
                     ELSE {Some(DefaultTemplate)})
    /\ baked = NotBaked
    /\ exText \in (IF "extract" \in called THEN Texts ELSE {<<>>})
    /\ exRet = NotExtracted
    /\ challenge \in (IF "valid" \in called THEN Challenges \cup {EmptyDict} ELSE {EmptyDict})
    /\ validRet = "not called"
    /\ metricIn \in (IF "metric" \in called THEN MetricInputs ELSE {NoMetricInput})
    /\ metricRet = NotScored
    /\ judgeCalls = 0
    /\ store \in (IF "store" \in called \/ "level" \in called THEN Stores ELSE {NoStore})
    /\ storeCall = NoStoreCall
    /\ loadRet = NotLoaded
    /\ skillsTable \in (IF "level" \in called THEN SkillsTables ELSE {NoSkillsTable})
    /\ levelCall \in (IF "level" \in called THEN LevelCalls ELSE {NoLevelCall})
    /\ levelRet = NotLevelled
    /\ storeReads = 0
    /\ metaFetches = 0

Routines == {"eval", "bake", "extract", "valid", "metric", "store", "level"}

Init == Start(Routines)
Next == EvalNext \/ BakeNext \/ ExtractNext \/ ValidNext \/ MetricNext \/ StoreNext
            \/ LevelNext
Spec == Init /\ [][Next]_vars

InitEval == Start({"eval"})
SpecEval == InitEval /\ [][EvalNext]_vars

InitBake == Start({"bake"})
SpecBake == InitBake /\ [][BakeNext]_vars

InitExtract == Start({"extract"})
SpecExtract == InitExtract /\ [][ExtractNext]_vars

InitValid == Start({"valid"})
SpecValid == InitValid /\ [][ValidNext]_vars

InitMetric == Start({"metric"})
SpecMetric == InitMetric /\ [][MetricNext]_vars

InitStore == Start({"store"})
SpecStore == InitStore /\ [][StoreNext]_vars

InitLevel == Start({"level"})
SpecLevel == InitLevel /\ [][LevelNext]_vars

----------------------------------------------------------------------------
(* bake_prompt: claims *)

TemplateVariables == {Var(n) : n \in VarNames} \cup {InputVar(n) : n \in VarNames}

\* C1: whatever the base prompt and the values, the string bake_prompt returns
\* contains none of {{skill_name}}, {{skill_description}}, {{difficulty}},
\* {{difficulty_description}} nor any of their {{input.X}} forms.
C1_BakedHasNoTemplateVariable ==
    baked.kind = "ok" => \A tv \in TemplateVariables : ~Contains(baked.val, tv)

\* bake_prompt on brace-free values leaves {{input.difficulty_description}} in place
C1_InputDifficultyDescriptionSurvives ==
    /\ baked.kind = "ok"
    /\ bakeArgs.base_prompt = Some(InputVar("difficulty_description"))
    /\ bakeArgs.skill_name = <<"Python">>
    /\ bakeArgs.skill_description = <<"a language">>
    /\ baked.val = InputVar("difficulty_description")

----------------------------------------------------------------------------
(* ChallengeEvaluator: claims *)

Judged == evalResult.reasons = "judged"
Returned == evalResult # NoResult

\* min(10, max(0, value)) / 10, in hundredths
ClampThenScale(value) == PyMin(Points(10), PyMax(Points(0), value)).v \div 10

\* C2: _normalize_score returns min(10, max(0, value)) / 10 for an int or float
\* value and 0.0 for any other value, so every sub-score of an EvaluationResult
\* lies in [0,1].
C2_NormalizeClampsThenScales ==
    /\ Judged =>
         \A d \in Dims :
            LET value == RawScore(evalIn.parsed, d)
            IN  evalResult.scores[d] =
                    IF IsIntOrFloat(value) THEN ClampThenScale(value) ELSE 0
    /\ \A d \in Dims : evalResult.scores[d] \in 0..100

\* the judge scored clarity NaN and the sub-score came out as 1.0
C2_NaNScoresFull ==
    /\ Judged
    /\ RawScore(evalIn.parsed, "clarity") = NaN
    /\ evalResult.scores["clarity"] = 100

RECURSIVE SumOver(_, _)
\* the sum of f[d] over the d in S
SumOver(f, S) ==
    IF S = {} THEN 0
    ELSE LET d == CHOOSE x \in S : TRUE IN f[d] + SumOver(f, S \ {d})

\* C3: the five EVALUATION_WEIGHTS a composite score is computed with are each
\* positive and sum to 1 (100 hundredths).
C3_WeightsPositiveAndSumToOne ==
    Judged =>
        /\ DOMAIN EVALUATION_WEIGHTS = Dims
        /\ Cardinality(Dims) = 5
        /\ \A d \in Dims : EVALUATION_WEIGHTS[d] > 0
        /\ SumOver(EVALUATION_WEIGHTS, Dims) = 100

\* a judged result whose sub-scores are all 1 and whose composite is the sum of the weights
C3_Witness ==
    /\ Judged
    /\ \A d \in Dims : evalResult.scores[d] = 100
    /\ evalResult.composite_score = 100 * SumOver(EVALUATION_WEIGHTS, Dims)

\* C4: the composite_score of every EvaluationResult is the sum over the five
\* dimensions of sub-score times weight and lies in [0,1]; it is 0 when every
\* sub-score is 0 and 1 when every sub-score is 1.
C4_CompositeIsWeightedSum ==
    Returned =>
        /\ evalResult.composite_score =
              SumOver([d \in Dims |-> evalResult.scores[d] * EVALUATION_WEIGHTS[d]], Dims)
        /\ evalResult.composite_score \in 0..10000
        /\ (\A d \in Dims : evalResult.scores[d] = 0) => evalResult.composite_score = 0
        /\ (\A d \in Dims : evalResult.scores[d] = 100) => evalResult.composite_score = 10000

\* a judged result with unequal sub-scores, among them the heaviest and the lightest dimension
C4_Witness ==
    /\ Judged
    /\ evalResult.scores["difficulty_alignment"] = 100
    /\ evalResult.scores["educational_value"] = 0
    /\ evalResult.scores["clarity"] = 75
    /\ evalResult.composite_score \in 1..9999

\* C5: in every EvaluationResult of _parse_response or _create_failed_evaluation,
\* passed is true iff composite_score >= QUALITY_THRESHOLD (0.7); a failed
\* evaluation has composite_score 0 and passed false.
C5_PassedIffAtLeastThreshold ==
    Returned =>
        /\ evalResult.passed <=> (evalResult.composite_score >= 7000)
        /\ ~Judged => (evalResult.composite_score = 0 /\ ~evalResult.passed)

\* a judged result exactly on the threshold, which passes
C5_Witness ==
    /\ Judged
    /\ evalResult.composite_score = 7000
    /\ evalResult.passed

----------------------------------------------------------------------------
(* extract_first_json_object: claims *)

\* the JSON objects in the text, as <<start, end>> offsets
ObjectsIn(text) ==
    {<<i, ObjectEnd(text, i)>> : i \in {j \in 0..Len(text) : ObjectEnd(text, j) # -1}}

\* the first JSON object of the text, or None
FirstObject(text) ==
    IF ObjectsIn(text) = {} THEN NoObject
    ELSE LET o == CHOOSE a \in ObjectsIn(text) : \A b \in ObjectsIn(text) : a[1] <= b[1]
         IN  JsonLoads(Slice(text, o[1], o[2]))

\* C8: extract_first_json_object returns the first valid JSON object of the text,
\* also with several objects, extra content, stray or unbalanced braces before
\* the object, or an object nested in a brace span that is not valid JSON; it
\* returns None only when the text holds no valid JSON object.
C8_ReturnsFirstJsonObject ==
    exRet # NotExtracted => exRet = FirstObject(exText)

\* a stray closing brace before an object makes the function return None
C8_StrayBraceHidesObject ==
    /\ exText = <<"}", "{", "m", "}">>
    /\ exRet = NoObject

\* after a balanced span that is not JSON, the next object is returned
C8_SkipsInvalidSpan ==
    /\ exText = <<"{", "x", "}", "{", "}">>
    /\ exRet = [kind |-> "dict", val |-> <<"{", "}">>]

----------------------------------------------------------------------------
(* is_valid_challenge: claims *)

\* the conditions of a structurally valid challenge: the question has between 10
\* and 500 characters, options is a list of exactly 4 entries, each non-empty and
\* at most 200 characters long, pairwise distinct, and correctAnswerIndex is an
\* integer in 0..3
WellFormed(ch) ==
    /\ HasLen(ch.question) /\ ch.question.len \in 10..500
    /\ ch.options.t = "list" /\ ch.options.len = 4
    /\ \A i \in 1..Len(ch.options.items) :
          ~Falsy(ch.options.items[i]) /\ ch.options.items[i].strlen \in 1..200
    /\ \A i, j \in 1..Len(ch.options.items) :
          i # j => ~PyEq(ch.options.items[i], ch.options.items[j])
    /\ IsInt(ch.correctAnswerIndex) /\ ch.correctAnswerIndex.n \in 0..3

\* C9: is_valid_challenge returns true exactly when the challenge is well formed,
\* and for every other challenge dict it returns false rather than raising.
C9_ValidExactlyWhenWellFormed ==
    validRet # "not called" =>
        validRet = IF WellFormed(challenge) THEN "True" ELSE "False"

\* a numeric question makes is_valid_challenge raise
C9_NumericQuestionRaises ==
    /\ challenge.question = PInt(1234567890)
    /\ validRet = "TypeError"

\* a well-formed challenge is accepted
C9_WellFormedAccepted ==
    /\ WellFormed(challenge)
    /\ challenge.question.t = "str"
    /\ validRet = "True"

----------------------------------------------------------------------------
(* challenge_quality_metric: claims *)

Scored == metricRet # NotScored
MetricExtracted == ExtractFirstJsonObject(metricIn.llm_output)
MetricChallenge == DictOf(MetricExtracted.val, metricIn.payload)

\* C6: for every llm_output that contains a structurally valid challenge
\* (is_valid_challenge is true), challenge_quality_metric returns a ScoreResult
\* named challenge_quality whose value is in [0,1] and equals the composite_score
\* ChallengeEvaluator.evaluate returns for that challenge; it does not raise.
C6_ValidChallengeGetsCompositeScore ==
    (/\ Scored
     /\ MetricExtracted.kind = "dict"
     /\ IsValidChallenge(MetricChallenge) = "True")
    => /\ metricRet.kind = "ScoreResult"
       /\ metricRet.name = "challenge_quality"
       /\ metricRet.value \in 0..10000
       /\ metricRet.value = Evaluate(metricIn.judge).composite_score

\* the metric raises TypeError on a valid challenge, the judge never called
C6_ValidChallengeRaises ==
    /\ Scored
    /\ MetricChallenge = GoodChallenge
    /\ metricRet = Raised("TypeError")
    /\ judgeCalls = 0

\* C7: for every llm_output from which no JSON object can be extracted, or whose
\* extracted object fails is_valid_challenge, challenge_quality_metric returns a
\* ScoreResult named challenge_quality with value 0.0 and never calls the judge.
C7_InvalidOutputScoresZero ==
    (/\ Scored
     /\ \/ MetricExtracted.kind = "None"
        \/ IsValidChallenge(MetricChallenge) # "True")
    => /\ metricRet.kind = "ScoreResult"
       /\ metricRet.name = "challenge_quality"
       /\ metricRet.value = 0
       /\ judgeCalls = 0

\* is_valid_challenge raises on the extracted object and the metric raises with it
C7_ValidationErrorEscapes ==
    /\ Scored
    /\ MetricExtracted.kind = "dict"
    /\ IsValidChallenge(MetricChallenge) = "TypeError"
    /\ metricRet = Raised("TypeError")

\* C7, where is_valid_challenge returns: no object extracted, or the object
\* rejected with False, gives a ScoreResult of 0.0 and no judge call
C7_RejectedOutputScoresZero ==
    (/\ Scored
     /\ \/ MetricExtracted.kind = "None"
        \/ IsValidChallenge(MetricChallenge) = "False")
    => /\ metricRet = ScoreResult(0, metricRet.reason)
       /\ judgeCalls = 0

----------------------------------------------------------------------------
(* load_existing_optimized_prompt: claims *)

Loaded == storeCall.op = "load"
\* the file's entry for the skill and level of the call
LoadedEntry == LevelData(store.prompts, storeCall.skill_id, IntStr(storeCall.level))
EntryFound == store.state = "ok" /\ LoadedEntry.present /\ LoadedEntry.prompt # <<>>

----------------------------------------------------------------------------
(* bake_prompt_for_skill_level *)

Levelled == levelRet # NotLevelled

\* the file's entry for the call's skill and level
CalledEntry == LevelData(store.prompts, levelCall.skill_id, IntStr(levelCall.level))

\* an optimized prompt exists for the call's skill and level: the file is readable
\* and holds a non-empty prompt there whose status is deployed or pending
OptimizedExists ==
    /\ store.state = "ok"
    /\ CalledEntry.present
    /\ CalledEntry.prompt # <<>>
    /\ CalledEntry.status \in {"deployed", "pending"}

\* the skills table can be read and has a row for the call's skill
CalledRow ==
    IF levelCall.skill_id \in DOMAIN skillsTable.rows
    THEN skillsTable.rows[levelCall.skill_id] ELSE NoRow
MetadataFound == skillsTable.configured /\ CalledRow.present

\* the shipped template with the row's name and description, the level and
\* the level's description in the places of its four variables
BakedFromBase ==
    <<"x">> \o CalledRow.name \o CalledRow.description
            \o IntStr(levelCall.level) \o GetDifficultyDescription(levelCall.level)

C11_OptimizedReturned ==
    /\ Levelled
    /\ levelCall.use_optimized
    /\ OptimizedExists
    /\ levelRet = [kind |-> "ok", val |-> <<"optimized">>]
    /\ ~skillsTable.configured
    /\ metaFetches = 0

\* a call with use_optimized false that bakes although an optimized prompt exists
C11_OptimizedSkipped ==
    /\ Levelled
    /\ ~levelCall.use_optimized
    /\ OptimizedExists
    /\ levelRet = [kind |-> "ok", val |-> BakedFromBase]
    /\ storeReads = 0

====
